---- MODULE Spec2Model ----
(***************************************************************************)
(* Model of homework6/decision_tree.py: DecisionTree.__init__ /            *)
(* learn_tree (recursive induction of a binary-split decision tree over    *)
(* continuous attributes with missing values) and the classify traversal   *)
(* of DecisionNode / LeafNode.                                             *)
(*                                                                         *)
(* Numbers.  Attribute values are Python floats; the model draws them from *)
(* integers.  A threshold bottom + i*seg with seg = (top - bottom)/25 is   *)
(* kept as the integer 25*threshold, and a value v is compared with it as  *)
(* 25*v, so the comparisons are those of exact arithmetic.  Entropies are  *)
(* kept as fixed-point integers (units of 1/100000 bit) built from a     *)
(* table of n*log2(n); the 1e-15 smoothing of entropy() is far below that  *)
(* resolution and is dropped.  Floating-point rounding is not modelled.    *)
(***************************************************************************)
EXTENDS Integers, Sequences, FiniteSets, TLC

VARIABLES
    table,           \* the rows read_data returned
    examples,        \* the training examples handed to DecisionTree(...)
    id_name,         \* self.id_name
    class_name,      \* self.class_name
    min_leaf_count,  \* self.min_leaf_count
    stack,           \* pending learn_tree calls (innermost first)
    nodes,           \* path -> node built so far (the heap of tree nodes)
    root,            \* self.root: {} until __init__ stored it, then {<<>>}
    status,          \* "building", "built" or "error" (exception left __init__)
    query,           \* {the example given to classify} ({}: no call yet)
    walk,            \* the paths of the nodes whose classify ran, in call order
    result           \* {what classify returned} ({}: nothing yet)

vars == <<table, examples, id_name, class_name, min_leaf_count, stack, nodes, root,
          status, query, walk, result>>

----------------------------------------------------------------------------
(* Bounds of the model *)

MaxExamples == 4
MaxMinLeaf == 2
FarShift == 10000

(* Program constants *)

NumSeg == 25
BottomInit == 9999
TopInit == 0 - 9999
SentinelAttr == "town"

----------------------------------------------------------------------------
(* Values of an example: a float, None (missing) or a string *)

Float(n) == [type |-> "float", val |-> n]
None == [type |-> "NoneType", val |-> 0]
Str(s) == [type |-> "str", val |-> s]

IsFloat(v) == v.type = "float"

(* The keys of one example, in the order of the dictionary (csv columns) *)
Keys == <<"id", "x", "town", "y", "label">>

(* The four categories hard-coded in learn_tree and entropy *)
ClassList == <<"red", "light blue", "medium blue", "wicked blue">>
Categories == {ClassList[i] : i \in 1..4}

Min(a, b) == IF a < b THEN a ELSE b
Max(a, b) == IF a > b THEN a ELSE b

----------------------------------------------------------------------------
(* Entropy *)

(* n * log2(n) in units of 1/100000, rounded *)
NLog2N(n) ==
    CASE n = 0 -> 0
      [] n = 1 -> 0
      [] n = 2 -> 200000
      [] n = 3 -> 475489
      [] n = 4 -> 800000
      [] n = 5 -> 1160964
      [] n = 6 -> 1550978

ZeroCounts == [c \in Categories |-> 0]

(* total * entropy(dict, total), in units of 1/100000 bit:               *)
(*   -sum_c n_c * log2(n_c / total) = total*log2(total) - sum_c n_c*log2(n_c)*)
entropy(dict, total) ==
    NLog2N(total) - (NLog2N(dict["red"]) + NLog2N(dict["light blue"])
                     + NLog2N(dict["medium blue"]) + NLog2N(dict["wicked blue"]))

(* Common denominator of the weights p/(p_l + p_r), p_l + p_r in 1..6 *)
GainDen == 3 * 4 * 5

(* GainDen * total * (entropy_parent - (p_l/(p_l+p_r)*entropy_l             *)
(*                                     + p_r/(p_l+p_r)*entropy_r))          *)
(* for a node of `total` examples: the information gain of lines 211-213   *)
(* times a positive factor that is the same for every candidate of a node. *)
Gain(parent, total, l, p_l, r, p_r) ==
    GainDen * entropy(parent, total)
      - (GainDen \div (p_l + p_r)) * total * (entropy(l, p_l) + entropy(r, p_r))

----------------------------------------------------------------------------
(* learn_tree, lines 156-170: class counts and majority class.             *)
(* exs is a sequence of indices into examples (references to the dicts).   *)

Label(i) == examples[i][class_name].val

(* Variant: the majority is replaced whenever a class reaches the running  *)
(* maximum (>= in place of the strict increase of lines 164-167)           *)
RECURSIVE MajorityScanTiesReplace(_, _, _)
MajorityScanTiesReplace(exs, k, st) ==
    IF k > Len(exs) THEN st
    ELSE IF Label(exs[k]) \notin Categories THEN [st EXCEPT !.raised = TRUE]
    ELSE LET c == Label(exs[k])
             parent == [st.parent EXCEPT ![c] = @ + 1]
             pcc == Max(st.pred_class_count, parent[c])
         IN MajorityScanTiesReplace(exs, k + 1,
               [parent |-> parent,
                pred_class_count |-> pcc,
                majority |-> IF parent[c] >= st.pred_class_count THEN c ELSE st.majority,
                total |-> st.total + 1,
                raised |-> FALSE])

(* Variant: an example whose label is not a key of parent is passed over   *)
(* (a guarded parent.get(...) in place of the indexing of line 162)        *)
RECURSIVE MajorityScanSkipsUnknown(_, _, _)
MajorityScanSkipsUnknown(exs, k, st) ==
    IF k > Len(exs) THEN st
    ELSE IF Label(exs[k]) \notin Categories
         THEN MajorityScanSkipsUnknown(exs, k + 1, [st EXCEPT !.total = @ + 1])
    ELSE LET c == Label(exs[k])
             parent == [st.parent EXCEPT ![c] = @ + 1]
             check_count == st.pred_class_count
             pcc == Max(st.pred_class_count, parent[c])
         IN MajorityScanSkipsUnknown(exs, k + 1,
               [parent |-> parent,
                pred_class_count |-> pcc,
                majority |-> IF check_count /= pcc THEN c ELSE st.majority,
                total |-> st.total + 1,
                raised |-> FALSE])

(* line 162 raises KeyError when the label is none of the four keys of     *)
(* parent: the scan stops there with raised = TRUE                         *)
RECURSIVE MajorityScan(_, _, _)
MajorityScan(exs, k, st) ==
    IF k > Len(exs) THEN st
    ELSE IF Label(exs[k]) \notin Categories THEN [st EXCEPT !.raised = TRUE]
    ELSE LET c == Label(exs[k])
             parent == [st.parent EXCEPT ![c] = @ + 1]
             check_count == st.pred_class_count
             pcc == Max(st.pred_class_count, parent[c])
         IN MajorityScan(exs, k + 1,
               [parent |-> parent,
                pred_class_count |-> pcc,
                majority |-> IF check_count /= pcc THEN c ELSE st.majority,
                total |-> st.total + 1,
                raised |-> FALSE])

ParentStats(exs) ==
    MajorityScan(exs, 1, [parent |-> ZeroCounts, pred_class_count |-> 0,
                          majority |-> "red", total |-> 0, raised |-> FALSE])

----------------------------------------------------------------------------
(* learn_tree, lines 176-218: the scan for the best split *)

(* line 178: the attribute is scanned when the FIRST example holds a float *)
(* for it (type(x) is None is never true) and it is not the id attribute   *)
AttrEvaluated(exs, key) ==
    /\ examples[exs[1]][key].type = "float"
    /\ key /= id_name

(* lines 180-185 *)
RECURSIVE RangeScan(_, _, _, _)
RangeScan(exs, key, k, bt) ==
    IF k > Len(exs) THEN bt
    ELSE LET v == examples[exs[k]][key]
         IN RangeScan(exs, key, k + 1,
               IF IsFloat(v)
               THEN [bottom |-> Min(v.val, bt.bottom), top |-> Max(v.val, bt.top)]
               ELSE bt)

Range(exs, key) == RangeScan(exs, key, 1, [bottom |-> BottomInit, top |-> TopInit])

(* lines 186-193: 25 * (the threshold of iteration i of range(25)):        *)
(* thres starts at bottom - seg and grows by seg BEFORE it is used          *)
Thres25(bt, i) == NumSeg * bt.bottom + i * (bt.top - bt.bottom)

(* line 190: range(25) *)
FirstI == 0
LastI == NumSeg - 1

(* 25 * (the thresholds learn_tree partitions the examples by) for one key *)
Thresholds(exs, key) == {Thres25(Range(exs, key), i) : i \in FirstI..LastI}

(* lines 197-204: the examples on each side of a threshold *)
GE(v, thres25) == NumSeg * v.val >= thres25

RightOf(exs, key, thres25) ==
    SelectSeq(exs, LAMBDA i : IsFloat(examples[i][key]) /\ GE(examples[i][key], thres25))
LeftOf(exs, key, thres25) ==
    SelectSeq(exs, LAMBDA i : IsFloat(examples[i][key]) /\ ~GE(examples[i][key], thres25))

(* lines 195-204: the class counts l and r of one side *)
RECURSIVE CountsOf(_, _)
CountsOf(exs, k) ==
    IF k > Len(exs) THEN ZeroCounts
    ELSE LET rest == CountsOf(exs, k + 1)
         IN [rest EXCEPT ![Label(exs[k])] = @ + 1]

(* Variant: a partition of exactly min_leaf_count examples is accepted     *)
(* (>= in place of > in line 215)                                          *)
ConsiderAtLeastMinLeaf(exs, ps, key, thres25, st) ==
    LET exl == LeftOf(exs, key, thres25)
        exr == RightOf(exs, key, thres25)
        p_l == Len(exl)
        p_r == Len(exr)
    IN IF p_r /= 0 /\ p_l /= 0
       THEN LET check == st.IG
                g == Gain(ps.parent, ps.total, CountsOf(exl, 1), p_l, CountsOf(exr, 1), p_r)
                IG == Max(st.IG, g)
            IN IF IG /= check /\ (p_l >= min_leaf_count /\ p_r >= min_leaf_count)
               THEN [IG |-> IG, IG_thres |-> thres25, IG_attr |-> key,
                     minimum_l |-> p_l, minimum_r |-> p_r]
               ELSE [st EXCEPT !.IG = IG]
       ELSE st

(* lines 205-218: one candidate (key, thres) against the running best *)
Consider(exs, ps, key, thres25, st) ==
    LET exl == LeftOf(exs, key, thres25)
        exr == RightOf(exs, key, thres25)
        p_l == Len(exl)
        p_r == Len(exr)
    IN IF p_r /= 0 /\ p_l /= 0
       THEN LET check == st.IG
                g == Gain(ps.parent, ps.total, CountsOf(exl, 1), p_l, CountsOf(exr, 1), p_r)
                IG == Max(st.IG, g)
            IN IF IG /= check /\ (p_l > min_leaf_count /\ p_r > min_leaf_count)
               THEN [IG |-> IG, IG_thres |-> thres25, IG_attr |-> key,
                     minimum_l |-> p_l, minimum_r |-> p_r]
               ELSE [st EXCEPT !.IG = IG]
       ELSE st

(* line 190, for i in range(25): the candidates lo..hi of one attribute in  *)
(* ascending order of i, each applied to the state the previous one left.  *)
(* The range is halved, and IG (a running maximum that starts at 0, never  *)
(* negative) is read on entry, only to keep the evaluation shallow.        *)
RECURSIVE ThresScan(_, _, _, _, _, _, _)
ThresScan(exs, ps, key, bt, lo, hi, st) ==
    IF st.IG < 0 THEN st
    ELSE IF lo = hi THEN Consider(exs, ps, key, Thres25(bt, lo), st)
    ELSE LET mid == (lo + hi) \div 2
         IN ThresScan(exs, ps, key, bt, mid + 1, hi,
                      ThresScan(exs, ps, key, bt, lo, mid, st))

RECURSIVE KeyScan(_, _, _, _)
KeyScan(exs, ps, k, st) ==
    IF k > Len(Keys) THEN st
    ELSE KeyScan(exs, ps, k + 1,
            IF AttrEvaluated(exs, Keys[k])
            THEN ThresScan(exs, ps, Keys[k], Range(exs, Keys[k]), FirstI, LastI, st)
            ELSE st)

(* lines 173-175 *)
ScanInit == [IG |-> 0, IG_thres |-> 0, IG_attr |-> SentinelAttr,
             minimum_l |-> 0, minimum_r |-> 0]

BestSplit(exs) == KeyScan(exs, ParentStats(exs), 1, ScanInit)

(* Variant: every example with a defined value is appended to examples_r   *)
(* (the threshold test of line 229 lost)                                   *)
examples_r_untested(exs, IG_attr, IG_thres) ==
    SelectSeq(exs, LAMBDA i : IsFloat(examples[i][IG_attr]))

(* lines 225-232: the lists handed to the two recursive calls *)
examples_r(exs, IG_attr, IG_thres) ==
    SelectSeq(exs, LAMBDA i : IsFloat(examples[i][IG_attr])
                              /\ NumSeg * examples[i][IG_attr].val >= IG_thres)
examples_l(exs, IG_attr, IG_thres) ==
    SelectSeq(exs, LAMBDA i : IsFloat(examples[i][IG_attr])
                              /\ ~(NumSeg * examples[i][IG_attr].val >= IG_thres))

(* line 221 *)
IsLeafCase(exs, best) ==
    best.IG_attr = SentinelAttr \/ Len(exs) <= min_leaf_count

(* LeafNode.__init__: prob is kept as the pair pred_class_count/total_count *)
LeafNode(pred_class, pred_class_count, total_count, exs) ==
    [kind |-> "leaf", pred_class |-> pred_class,
     pred_class_count |-> pred_class_count, total_count |-> total_count,
     built_from |-> exs]

(* DecisionNode.__init__; children are the nodes at path \o <<"lt">>,      *)
(* path \o <<"ge">>, and the missing-branch leaf held in child_miss        *)
DecisionNode(test_attr_name, test_attr_threshold, child_miss, exs) ==
    [kind |-> "decision", test_attr_name |-> test_attr_name,
     test_attr_threshold |-> test_attr_threshold, child_miss |-> child_miss,
     built_from |-> exs]

---------------------------------------------------------------------------------------------------------------------------------------------------
(* Inputs.  The driver reads a table of rows, shuffles it and trains on a  *)
(* part of it (train_test_split): a training set is an arrangement of      *)
(* distinct rows of the table, and classify is given rows of the table.    *)

Row(id, x, y, town, label) ==
    [id |-> Str(id), x |-> x, y |-> y, town |-> town, label |-> Str(label)]

Rows ==
    { Row("t1", Float(0), Float(0), Float(0), "red"),
      Row("t2", Float(1), Float(0), Float(0), "red"),
      Row("t3", Float(0), Float(1), Float(1), "light blue"),
      Row("t4", Float(1), Float(1), None,     "medium blue"),
      Row("t5", None,     Float(2), Float(1), "light blue"),
      Row("t6", Float(2), None,     Float(0), "wicked blue"),
      Row("t7", Float(1), Float(0), Float(0), "purple") }

(* The same table with every number moved by d *)
Moved(v, d) == IF IsFloat(v) THEN Float(v.val + d) ELSE v
RowsMoved(d) ==
    { [r EXCEPT !.x = Moved(@, d), !.y = Moved(@, d), !.town = Moved(@, d)] : r \in Rows }

Arrangements(S, n) ==
    UNION { { f \in [1..k -> S] : \A i, j \in 1..k : f[i] = f[j] => i = j } : k \in 0..n }

InitOn(rows) ==
    /\ table = rows
    /\ examples \in Arrangements(rows, MaxExamples)
    /\ id_name \in {"id", "town"}
    /\ class_name = "label"
    /\ min_leaf_count \in 0..MaxMinLeaf
    /\ stack = <<[path |-> <<>>, exs |-> [i \in 1..Len(examples) |-> i]]>>
    /\ nodes = <<>>
    /\ root = {}
    /\ status = "building"
    /\ query = {}
    /\ walk = <<>>
    /\ result = {}

Init == InitOn(Rows)

(* Tables whose numbers all lie above 9999, or all below -9999 *)
InitFar == \E d \in {FarShift, 0 - FarShift - 2} : InitOn(RowsMoved(d))

----------------------------------------------------------------------------
(* learn_tree: one call, up to its recursive calls *)

Top == Head(stack)

(* line 162 raises KeyError on a label outside the four categories, and    *)
(* line 176 raises IndexError on an empty list: the exception leaves       *)
(* __init__ before self.root is assigned                                   *)
LearnRaises(exs) == ParentStats(exs).raised \/ Len(exs) = 0

LearnError ==
    /\ status = "building" /\ stack /= <<>>
    /\ LearnRaises(Top.exs)
    /\ status' = "error"
    /\ stack' = <<>>
    /\ UNCHANGED <<table, examples, id_name, class_name, min_leaf_count, nodes, root,
                   query, walk, result>>

(* One call of learn_tree that returns.  Lines 221-222: a LeafNode.  Lines *)
(* 223-239: the DecisionNode is recorded with its missing-branch leaf, and *)
(* learn_tree(examples_l), then learn_tree(examples_r), are the next calls *)
LearnTree ==
    /\ status = "building" /\ stack /= <<>>
    /\ ~LearnRaises(Top.exs)
    /\ LET exs == Top.exs
           ps == ParentStats(exs)
           best == BestSplit(exs)
           miss == LeafNode(ps.majority, ps.pred_class_count, ps.total, exs)
       IN IF IsLeafCase(exs, best)
          THEN /\ nodes' = (Top.path :> miss) @@ nodes
               /\ stack' = Tail(stack)
          ELSE /\ nodes' = (Top.path :>
                               DecisionNode(best.IG_attr, best.IG_thres, miss, exs))
                            @@ nodes
               /\ stack' = <<[path |-> Top.path \o <<"lt">>,
                              exs |-> examples_l(exs, best.IG_attr, best.IG_thres)],
                             [path |-> Top.path \o <<"ge">>,
                              exs |-> examples_r(exs, best.IG_attr, best.IG_thres)]>>
                           \o Tail(stack)
    /\ UNCHANGED <<table, examples, id_name, class_name, min_leaf_count, root, status,
                   query, walk, result>>

(* __init__ line 132: the outermost learn_tree returned *)
StoreRoot ==
    /\ status = "building" /\ stack = <<>>
    /\ root' = {<<>>}
    /\ status' = "built"
    /\ UNCHANGED <<table, examples, id_name, class_name, min_leaf_count, stack, nodes,
                   query, walk, result>>

----------------------------------------------------------------------------
(* classify *)

Front(p) == SubSeq(p, 1, Len(p) - 1)
Last(p) == p[Len(p)]

(* The node a path names: child_miss is held inside its decision node *)
NodeAt(p) ==
    IF p /= <<>> /\ Last(p) = "miss" THEN nodes[Front(p)].child_miss ELSE nodes[p]

(* Variant: the comparison of line 74 turned round *)
ChildForTurned(node, example) ==
    LET test_val == example[node.test_attr_name]
    IN IF test_val.type = "NoneType" THEN "miss"
       ELSE IF NumSeg * test_val.val > node.test_attr_threshold THEN "lt"
       ELSE "ge"

(* DecisionNode.classify, lines 71-77: the child the call is handed to *)
ChildFor(node, example) ==
    LET test_val == example[node.test_attr_name]
    IN IF test_val.type = "NoneType" THEN "miss"
       ELSE IF NumSeg * test_val.val < node.test_attr_threshold THEN "lt"
       ELSE "ge"

Classifying == query /= {} /\ result = {}

(* DecisionTree.classify, line 257 *)
Classify(example) ==
    /\ status = "built" /\ ~Classifying
    /\ query' = {example}
    /\ walk' = <<CHOOSE p \in root : TRUE>>
    /\ result' = {}
    /\ UNCHANGED <<table, examples, id_name, class_name, min_leaf_count, stack, nodes,
                   root, status>>

ClassifyDecision ==
    /\ Classifying
    /\ NodeAt(Last(walk)).kind = "decision"
    /\ \E example \in query :
          walk' = Append(walk, Last(walk) \o <<ChildFor(NodeAt(Last(walk)), example)>>)
    /\ UNCHANGED <<table, examples, id_name, class_name, min_leaf_count, stack, nodes,
                   root, status, query, result>>

(* LeafNode.classify, line 108; every caller returns the value unchanged *)
ClassifyLeaf ==
    /\ Classifying
    /\ NodeAt(Last(walk)).kind = "leaf"
    /\ LET leaf == NodeAt(Last(walk))
       IN result' = {[pred_class |-> leaf.pred_class,
                      prob_num |-> leaf.pred_class_count,
                      prob_den |-> leaf.total_count]}
    /\ UNCHANGED <<table, examples, id_name, class_name, min_leaf_count, stack, nodes,
                   root, status, query, walk>>

Next ==
    \/ LearnError
    \/ LearnTree
    \/ StoreRoot
    \/ \E example \in table : Classify(example)
    \/ ClassifyDecision
    \/ ClassifyLeaf

Spec == Init /\ [][Next]_vars

SpecFar == InitFar /\ [][Next]_vars

----------------------------------------------------------------------------
(* What the properties speak of *)

Paths == DOMAIN nodes
DecisionPaths == {p \in Paths : nodes[p].kind = "decision"}

(* Every LeafNode built so far: leaves of lt/ge branches and a root leaf   *)
(* by their path, missing-branch leaves by the path of their node + miss   *)
LeafPaths ==
    {p \in Paths : nodes[p].kind = "leaf"} \cup {p \o <<"miss">> : p \in DecisionPaths}

(* The example list of the learn_tree call for path p: of the node when    *)
(* the call returned, of the pending call otherwise                        *)
ExsOf(p) ==
    IF p \in Paths THEN nodes[p].built_from
    ELSE stack[CHOOSE k \in 1..Len(stack) : stack[k].path = p].exs

SetOf(seq) == {seq[k] : k \in 1..Len(seq)}

Defined(exs, key) == {i \in SetOf(exs) : examples[i][key].type = "float"}

TrueMin(exs, key) ==
    CHOOSE m \in {examples[i][key].val : i \in Defined(exs, key)} :
        \A i \in Defined(exs, key) : m <= examples[i][key].val
TrueMax(exs, key) ==
    CHOOSE m \in {examples[i][key].val : i \in Defined(exs, key)} :
        \A i \in Defined(exs, key) : m >= examples[i][key].val

CountOf(exs, c) == Cardinality({k \in 1..Len(exs) : Label(exs[k]) = c})

(* The position in exs at which class c is seen for the m-th time *)
ReachedAt(exs, c, m) ==
    CHOOSE k \in 1..Len(exs) :
        /\ Label(exs[k]) = c
        /\ Cardinality({j \in 1..k : Label(exs[j]) = c}) = m

(* The candidates (attribute, threshold) of a node, in scan order: the     *)
(* evaluated attributes in key order, the thresholds ascending             *)
CandKeys(exs) == SelectSeq(Keys, LAMBDA key : AttrEvaluated(exs, key))
NumCands(exs) == Len(CandKeys(exs)) * NumSeg
CandAt(exs, n) ==
    LET key == CandKeys(exs)[((n - 1) \div NumSeg) + 1]
        thr == Thres25(Range(exs, key), FirstI + ((n - 1) % NumSeg))
        lt == {i \in Defined(exs, key) : NumSeg * examples[i][key].val < thr}
        ge == {i \in Defined(exs, key) : NumSeg * examples[i][key].val >= thr}
        cl == [c \in Categories |-> Cardinality({i \in lt : Label(i) = c})]
        cr == [c \in Categories |-> Cardinality({i \in ge : Label(i) = c})]
        cp == [c \in Categories |-> CountOf(exs, c)]
    IN [attr |-> key, thres |-> thr, p_l |-> Cardinality(lt), p_r |-> Cardinality(ge),
        gain |-> IF lt = {} \/ ge = {} THEN 0
                 ELSE Gain(cp, Len(exs), cl, Cardinality(lt), cr, Cardinality(ge))]
Cands(exs) == [n \in 1..NumCands(exs) |-> CandAt(exs, n)]

(* Both partitions non-empty and both larger than min_leaf_count *)
Passes(c) ==
    /\ c.p_l > 0 /\ c.p_r > 0
    /\ c.p_l > min_leaf_count /\ c.p_r > min_leaf_count

----------------------------------------------------------------------------
(* C1: the split stored in a DecisionNode is a candidate of maximum        *)
(* information gain among the candidates of that node whose partitions are *)
(* both non-empty and both larger than min_leaf_count, and the first such  *)
(* candidate in scan order                                                 *)
C1_StoredSplitIsBestPassing ==
    \A p \in DecisionPaths :
        LET cs == Cands(nodes[p].built_from)
        IN \E n \in DOMAIN cs :
              /\ cs[n].attr = nodes[p].test_attr_name
              /\ cs[n].thres = nodes[p].test_attr_threshold
              /\ Passes(cs[n])
              /\ \A m \in DOMAIN cs : Passes(cs[m]) => cs[m].gain <= cs[n].gain
              /\ \A m \in 1..(n - 1) : Passes(cs[m]) => cs[m].gain < cs[n].gain

(* C2: learn_tree returns a LeafNode exactly when the list is no longer    *)
(* than min_leaf_count or no candidate has gain > 0 with both partitions   *)
(* larger than min_leaf_count                                              *)
C2_LeafIffNoCandidate ==
    \A p \in Paths :
        LET exs == nodes[p].built_from
            cs == Cands(exs)
        IN (nodes[p].kind = "leaf") <=>
              \/ Len(exs) <= min_leaf_count
              \/ ~ \E n \in DOMAIN cs : cs[n].gain > 0 /\ Passes(cs[n])

(* C3: the lists of the two recursive calls of a split are non-empty and   *)
(* strictly smaller than the list of the call, so a call at depth d has at *)
(* most len(examples) - d examples and the recursion ends                  *)
C3_RecursionShrinks ==
    /\ \A p \in DecisionPaths :
          /\ 0 < Len(ExsOf(p \o <<"lt">>))
          /\ Len(ExsOf(p \o <<"lt">>)) < Len(nodes[p].built_from)
          /\ 0 < Len(ExsOf(p \o <<"ge">>))
          /\ Len(ExsOf(p \o <<"ge">>)) < Len(nodes[p].built_from)
    /\ \A k \in 1..Len(stack) :
          Len(stack[k].path) + Len(stack[k].exs) <= Max(Len(examples), 1)

C3_Witness ==
    /\ status = "built"
    /\ \E p \in DecisionPaths : Len(p) >= 1

(* C4: every LeafNode has 0 < pred_class_count <= total_count, total_count *)
(* the size of the list it was built from, pred_class_count the number of  *)
(* those examples labelled pred_class, no class with a larger count, and   *)
(* on a tie pred_class the class that reached that count first             *)
C4_LeafStatistics ==
    \A p \in LeafPaths :
        LET leaf == NodeAt(p)
            exs == leaf.built_from
        IN /\ 0 < leaf.pred_class_count
           /\ leaf.pred_class_count <= leaf.total_count
           /\ leaf.total_count = Len(exs)
           /\ leaf.pred_class_count = CountOf(exs, leaf.pred_class)
           /\ \A c \in Categories : CountOf(exs, c) <= leaf.pred_class_count
           /\ \A c \in Categories \ {leaf.pred_class} :
                 CountOf(exs, c) = leaf.pred_class_count =>
                    ReachedAt(exs, leaf.pred_class, leaf.pred_class_count)
                       < ReachedAt(exs, c, leaf.pred_class_count)

(* a finished tree with a leaf whose majority class is tied with the class *)
(* of its first example                                                    *)
C4_Witness ==
    /\ status = "built"
    /\ \E p \in LeafPaths :
          LET leaf == NodeAt(p)
              first == Label(leaf.built_from[1])
          IN /\ first /= leaf.pred_class
             /\ CountOf(leaf.built_from, first) = leaf.pred_class_count

(* C5: classify hands the example to exactly one child of a DecisionNode - *)
(* child_miss for a missing value, child_lt for value < threshold,         *)
(* child_ge otherwise - and returns what the leaf it ends in stores; the   *)
(* same comparison splits the training examples: examples_l and examples_r *)
(* are disjoint and together the examples with a defined value             *)
C5_Routing ==
    /\ \A k \in 1..(Len(walk) - 1) : \A example \in query :
          LET node == NodeAt(walk[k])
              v == example[node.test_attr_name]
          IN /\ node.kind = "decision"
             /\ walk[k + 1] = walk[k] \o
                   << IF v.type = "NoneType" THEN "miss"
                      ELSE IF NumSeg * v.val < node.test_attr_threshold THEN "lt"
                      ELSE "ge" >>
    /\ \A r \in result :
          LET leaf == NodeAt(Last(walk))
          IN /\ leaf.kind = "leaf"
             /\ r = [pred_class |-> leaf.pred_class,
                     prob_num |-> leaf.pred_class_count,
                     prob_den |-> leaf.total_count]
    /\ \A p \in DecisionPaths :
          LET l == SetOf(ExsOf(p \o <<"lt">>))
              r == SetOf(ExsOf(p \o <<"ge">>))
              a == nodes[p].test_attr_name
              t == nodes[p].test_attr_threshold
          IN /\ l \cap r = {}
             /\ l \cup r = Defined(nodes[p].built_from, a)
             /\ \A i \in l : NumSeg * examples[i][a].val < t
             /\ \A i \in r : NumSeg * examples[i][a].val >= t
             /\ Len(ExsOf(p \o <<"lt">>)) = Cardinality(l)
             /\ Len(ExsOf(p \o <<"ge">>)) = Cardinality(r)

(* classify returned for an example whose value for the root's test        *)
(* attribute is missing while another of its values is not                 *)
C5_Witness ==
    /\ result /= {}
    /\ Len(walk) >= 2 /\ Last(walk[2]) = "miss"
    /\ \E example \in query : \E key \in {"x", "y", "town"} : example[key].type = "float"

(* C6: constructing a DecisionTree on an empty training set, or on one     *)
(* with an example whose label is none of the four categories, ends in an  *)
(* error: no node is built and no root is stored                           *)
C6_BadTrainingSetRaises ==
    (Len(examples) = 0 \/ \E i \in 1..Len(examples) : Label(i) \notin Categories)
        => /\ root = {}
           /\ nodes = <<>>
           /\ status = "error" \/ (status = "building" /\ Len(stack) = 1)

(* the error was raised for a training set whose last example only has an  *)
(* unrecognized label                                                      *)
C6_Witness ==
    /\ status = "error"
    /\ Len(examples) >= 2
    /\ Label(Len(examples)) \notin Categories
    /\ \A i \in 1..(Len(examples) - 1) : Label(i) \in Categories

C8_ThresholdsOneTo25 ==
    \A p \in Paths : \A key \in SetOf(CandKeys(nodes[p].built_from)) :
        LET exs == nodes[p].built_from
        IN Thresholds(exs, key) =
              {NumSeg * TrueMin(exs, key) + i * (TrueMax(exs, key) - TrueMin(exs, key)) :
                  i \in 1..NumSeg}

(* C9: at every node the evaluated attributes are exactly those that are   *)
(* not the id attribute and for which some example of the node holds a     *)
(* number                                                                  *)
C9_EvaluatedAttributes ==
    \A p \in Paths : \A key \in SetOf(Keys) :
        AttrEvaluated(nodes[p].built_from, key)
            <=> (key /= id_name /\ Defined(nodes[p].built_from, key) /= {})

(* C10: the range (bottom, top) used for an evaluated attribute is the     *)
(* minimum and the maximum of its defined values                           *)
C10_RangeIsMinMax ==
    \A p \in Paths : \A key \in SetOf(CandKeys(nodes[p].built_from)) :
        LET exs == nodes[p].built_from
        IN Range(exs, key) = [bottom |-> TrueMin(exs, key), top |-> TrueMax(exs, key)]

====
